---- MODULE Spec2Model ----
(***************************************************************************)
(* Model of codebase_genius/BE/analyzer_utils.py: the two syntax-tree      *)
(* walks (extract_entities_minimal, extract_call_relationships), the       *)
(* dependency graph builder (build_dependency_tree) and the cached         *)
(* analysis driver (run_analysis).                                         *)
(*                                                                         *)
(* A syntax tree is kept in pre-order: node i (1..n) has parent[i] < i,    *)
(* the module root is node 0.  The identifier children of a definition or  *)
(* a call (field `name`, field `function`) are folded into the node.       *)
(***************************************************************************)
EXTENDS Integers, Sequences, FiniteSets, TLC

VARIABLES
    tree,           \* the syntax tree handed to the two walks
    entities,       \* what extract_entities_minimal returned for it
    calls,          \* what extract_call_relationships returned for it
    file_data,      \* build_dependency_tree: the list of per-file entities
    call_graph,     \* build_dependency_tree: the aggregated call map
    all_functions,  \* build_dependency_tree: function name -> node id
    dot,            \* build_dependency_tree: the nodes and edges drawn
    fs,             \* the source files on disk, in os.walk order
    cache,          \* the cache files on disk: path -> JSON text
    args,           \* run_analysis: the arguments of the last call
    ret,            \* run_analysis: what the last call returned
    effects,        \* run_analysis: what the last call did on its way
    pc

treeVars == <<tree, entities, calls>>
graphVars == <<file_data, call_graph, all_functions, dot>>
runVars == <<fs, cache, args, ret, effects>>
vars == <<tree, entities, calls, file_data, call_graph, all_functions, dot,
          fs, cache, args, ret, effects, pc>>

\* Python's None
None == "None"

\* the values of the variables no operation has assigned yet
NoTree == [parent |-> <<>>, node |-> <<>>]
NoEntities == [file |-> None, functions |-> <<>>, classes |-> <<>>]
NoGraph == [nodes |-> {}, edges |-> {}]
NoCall == [repo_path |-> None, cache_path |-> None]
NoReturn == [error |-> None]
NoEffects ==
    [cache_hit |-> FALSE, parser |-> FALSE, parser_failed |-> FALSE,
     log |-> <<>>, wrote |-> FALSE]

\* ---------------------------------------------------------------- bounds
MaxNodes == 3
MaxFuncs == 1
MaxFiles == 2

\* ------------------------------------------------------------ constants
BUILTIN_FUNCTIONS ==
    {"print", "len", "str", "int", "float", "bool", "dict", "list", "set",
     "tuple", "open", "range", "enumerate", "zip", "map", "filter", "sum",
     "max", "min", "abs", "isinstance", "hasattr", "getattr", "setattr",
     "type", "id", "iter", "next", "sorted", "reversed", "any", "all",
     "get", "items", "keys", "values", "append", "extend", "pop", "remove",
     "join", "split", "strip", "replace", "format", "startswith", "endswith",
     "exists", "isdir", "isfile", "makedirs", "listdir", "walk", "load",
     "dump", "loads", "dumps", "read", "write", "readline"}

JAC_KEYWORDS ==
    {"visit", "spawn", "disengage", "report", "here", "root", "edge_in",
     "edge_out", "refs", "filter_on", "OPath", "jid"}

\* ------------------------------------------------------- syntax trees
\* The node kinds the walks distinguish.  `name` is the text of the `name`
\* field (None when the field is absent); `ftype`/`ftext` are the type of
\* the `function` field of a call and the name it resolves to.
FunctionDef(n) ==
    [type |-> "function_definition", name |-> n, ftype |-> None, ftext |-> None]

ClassDef(n) ==
    [type |-> "class_definition", name |-> n, ftype |-> None, ftext |-> None]

Call(ftype, ftext) ==
    [type |-> "call", name |-> None, ftype |-> ftype, ftext |-> ftext]

Block == [type |-> "block", name |-> None, ftype |-> None, ftext |-> None]

FunctionNodes == {FunctionDef(n) : n \in {"f", "g", None}}

ClassNodes == {ClassDef(n) : n \in {"C", "D"}}

CallNodes ==
    {Call("identifier", c) : c \in {"g", "x", "print"}}
    \cup {Call("attribute", "x"), Call("subscript", None)}

OtherNodes == {Block}

NodeKinds == FunctionNodes \cup ClassNodes \cup CallNodes \cup OtherNodes

RECURSIVE AncestorsOrSelf(_, _)
AncestorsOrSelf(p, j) ==
    IF j = 0 THEN {0} ELSE {j} \cup AncestorsOrSelf(p, p[j])

\* parent vectors of the ordered trees with n nodes below the root,
\* numbered in pre-order
Shapes(n) ==
    {p \in [1..n -> 0..(n - 1)] :
        \A i \in 1..n : /\ p[i] < i
                        /\ i > 1 => p[i] \in AncestorsOrSelf(p, i - 1)}

Size(t) == Len(t.parent)

\* node.children, in source order
Children(t, i) ==
    SelectSeq([j \in 1..Size(t) |-> j], LAMBDA j : t.parent[j] = i)

NodeType(t, i) == IF i = 0 THEN "module" ELSE t.node[i].type

\* node.start_point[0] + 1, every node on a line of its own below the root
Line(i) == i + 1

\* --------------------------------------- extract_entities_minimal
get_name(t, i) ==
    IF t.node[i].name # None THEN t.node[i].name ELSE "unknown"

\* the class the children of a class definition are visited under, were
\* the class of the enclosing visit kept
method_scope_outer(class_name, parent_class) ==
    IF parent_class # None THEN parent_class ELSE class_name

\* visit_node(child, class_name)
method_scope(class_name, parent_class) == class_name

RECURSIVE ent_visit_node(_, _, _, _), ent_visit_children(_, _, _, _)
ent_visit_node(t, i, parent_class, acc) ==
    IF NodeType(t, i) = "function_definition"
    THEN [acc EXCEPT !.functions =
             Append(@, [name |-> get_name(t, i),
                        parent |-> parent_class,
                        line |-> Line(i)])]
    ELSE IF NodeType(t, i) = "class_definition"
    THEN ent_visit_children(t, Children(t, i),
             method_scope(get_name(t, i), parent_class),
             [acc EXCEPT !.classes =
                 Append(@, [name |-> get_name(t, i), line |-> Line(i)])])
    ELSE ent_visit_children(t, Children(t, i), parent_class, acc)

ent_visit_children(t, kids, parent_class, acc) ==
    IF kids = <<>> THEN acc
    ELSE ent_visit_children(t, Tail(kids), parent_class,
             ent_visit_node(t, Head(kids), parent_class, acc))

\* display_name is os.path.basename(original_path or file_path)
extract_entities_minimal(t, display_name) ==
    LET acc == ent_visit_node(t, 0, None, [functions |-> <<>>, classes |-> <<>>])
    IN  [file |-> display_name, functions |-> acc.functions, classes |-> acc.classes]

\* --------------------------------------- extract_call_relationships
InSeq(x, s) == \E k \in 1..Len(s) : s[k] = x

NoDuplicates(s) == \A k, l \in 1..Len(s) : s[k] = s[l] => k = l

Min(S) == CHOOSE m \in S : \A o \in S : m <= o
Max(S) == CHOOSE m \in S : \A o \in S : m >= o

\* calls[key] of a defaultdict(list): creates the key when missing
Touch(d, key) == IF key \in DOMAIN d THEN d ELSE d @@ (key :> <<>>)

\* the name a call node resolves to, or None
Called(t, i) ==
    IF t.node[i].ftype \in {"identifier", "attribute"}
    THEN t.node[i].ftext ELSE None

\* RecordCall without the `called not in calls[current_func]` test
RecordCall_NoDedup(d, current_func, called) ==
    IF /\ called # None
       /\ called \notin BUILTIN_FUNCTIONS
       /\ called \notin JAC_KEYWORDS
    THEN [Touch(d, current_func) EXCEPT ![current_func] = Append(@, called)]
    ELSE d

RecordCall(d, current_func, called) ==
    IF /\ called # None
       /\ called \notin BUILTIN_FUNCTIONS
       /\ called \notin JAC_KEYWORDS
       /\ ~InSeq(called, Touch(d, current_func)[current_func])
    THEN [Touch(d, current_func) EXCEPT ![current_func] = Append(@, called)]
    ELSE IF called # None /\ called \notin BUILTIN_FUNCTIONS
            /\ called \notin JAC_KEYWORDS
         THEN Touch(d, current_func)
         ELSE d

\* the function a definition's body is walked under
BodyFunc(func_name, current_func) == func_name

RECURSIVE call_visit_node(_, _, _, _), call_visit_children(_, _, _, _)
call_visit_node(t, i, current_func, d) ==
    IF NodeType(t, i) = "function_definition"
    THEN IF t.node[i].name # None
         THEN call_visit_children(t, Children(t, i),
                  BodyFunc(t.node[i].name, current_func),
                  Touch(d, t.node[i].name))
         ELSE d
    ELSE IF NodeType(t, i) = "call" /\ current_func # None
    THEN call_visit_children(t, Children(t, i), current_func,
             RecordCall(d, current_func, Called(t, i)))
    ELSE call_visit_children(t, Children(t, i), current_func, d)

call_visit_children(t, kids, current_func, d) ==
    IF kids = <<>> THEN d
    ELSE call_visit_children(t, Tail(kids), current_func,
             call_visit_node(t, Head(kids), current_func, d))

extract_call_relationships(t) ==
    call_visit_node(t, 0, None, <<>>)

\* ------------------------------------------- build_dependency_tree
\* f"{filename}_{name}"
node_id(filename, name) == filename \o "_" \o name

\* d[key] = value
Put(d, key, value) == [k \in DOMAIN d \cup {key} |-> IF k = key THEN value ELSE d[k]]

\* cluster.node(func_node, ...); all_functions[func['name']] = func_node
AddFunctionNode(st, filename, func) ==
    [st EXCEPT !.nodes = @ \cup {[id |-> node_id(filename, func.name), shape |-> "ellipse"]},
               !.all_functions = Put(@, func.name, node_id(filename, func.name))]

\* the methods of one class: node, dotted containment edge, map entry
RECURSIVE add_methods(_, _, _, _)
add_methods(file_info, cls, k, st) ==
    IF k > Len(file_info.functions) THEN st
    ELSE LET func == file_info.functions[k]
             drawn == AddFunctionNode(st, file_info.file, func)
         IN  add_methods(file_info, cls, k + 1,
                 IF func.parent = cls.name
                 THEN [drawn EXCEPT !.edges = @ \cup
                          {[from |-> node_id(file_info.file, cls.name),
                            to |-> node_id(file_info.file, func.name),
                            style |-> "dotted",
                            caller |-> None, callee |-> None]}]
                 ELSE st)

RECURSIVE add_classes(_, _, _)
add_classes(file_info, c, st) ==
    IF c > Len(file_info.classes) THEN st
    ELSE LET cls == file_info.classes[c]
         IN  add_classes(file_info, c + 1,
                 add_methods(file_info, cls, 1,
                     [st EXCEPT !.nodes = @ \cup
                         {[id |-> node_id(file_info.file, cls.name), shape |-> "box"]}]))

\* not func.get("parent")
IsStandalone(func) == func.parent = None \/ func.parent = ""

RECURSIVE add_standalone(_, _, _)
add_standalone(file_info, k, st) ==
    IF k > Len(file_info.functions) THEN st
    ELSE add_standalone(file_info, k + 1,
             IF IsStandalone(file_info.functions[k])
             THEN AddFunctionNode(st, file_info.file, file_info.functions[k])
             ELSE st)

RECURSIVE add_files(_, _, _)
add_files(fd, i, st) ==
    IF i > Len(fd) THEN st
    ELSE add_files(fd, i + 1,
             add_standalone(fd[i], 1, add_classes(fd[i], 1, st)))

\* the test of lines 232 and 234 on one (caller, callee) pair
draws_call_unfiltered(af, caller, callee) == caller \in DOMAIN af

draws_call(af, caller, callee) ==
    caller \in DOMAIN af /\ callee \in DOMAIN af

\* all_functions[name]; a missing key raises KeyError
call_endpoint_raw(af, name) == name

call_endpoint(af, name) ==
    IF name \in DOMAIN af THEN af[name] ELSE "KeyError"

\* the call edges; `caller` and `callee` keep the pair an edge was drawn for
call_edges(af, cg) ==
    UNION {{[from |-> call_endpoint(af, caller),
             to |-> call_endpoint(af, cg[caller][k]),
             style |-> "call",
             caller |-> caller, callee |-> cg[caller][k]] :
                k \in {j \in 1..Len(cg[caller]) : draws_call(af, caller, cg[caller][j])}} :
           caller \in DOMAIN cg}

build_dependency_tree(fd, cg) ==
    LET st == add_files(fd, 1, [nodes |-> {}, edges |-> {}, all_functions |-> <<>>])
    IN  [st EXCEPT !.edges = @ \cup call_edges(st.all_functions, cg)]

\* ------------------------------------------- the two walks of one tree
InitTree ==
    /\ \E n \in 0..MaxNodes : \E p \in Shapes(n) : \E k \in [1..n -> NodeKinds] :
          tree = [parent |-> p, node |-> k]
    /\ entities = NoEntities
    /\ calls = <<>>
    /\ pc = "parsed"
    /\ file_data = <<>>
    /\ call_graph = <<>>
    /\ all_functions = <<>>
    /\ dot = NoGraph
    /\ fs = <<>>
    /\ cache = <<>>
    /\ args = NoCall
    /\ ret = NoReturn
    /\ effects = NoEffects

ExtractEntities ==
    /\ pc = "parsed"
    /\ entities' = extract_entities_minimal(tree, "mod.py")
    /\ pc' = "entities"
    /\ UNCHANGED <<tree, calls, graphVars, runVars>>

ExtractCalls ==
    /\ pc = "entities"
    /\ calls' = extract_call_relationships(tree)
    /\ pc' = "done"
    /\ UNCHANGED <<tree, entities, graphVars, runVars>>

NextTree == ExtractEntities \/ ExtractCalls

SpecTree == InitTree /\ [][NextTree]_vars

\* ------------------------------------ build_dependency_tree on its own
GraphFileNames == {"a.py", "b.py"}

GraphClassLists == {<<>>, <<[name |-> "C", line |-> 1]>>}

GraphFuncLists ==
    UNION {[1..n -> [name : {"f", "g"}, parent : {None, "C"}, line : {2}]] :
              n \in 0..MaxFuncs}

\* a method's parent is a class recorded for the same file
FileInfos ==
    {fi \in [file : GraphFileNames, functions : GraphFuncLists, classes : GraphClassLists] :
        \A k \in 1..Len(fi.functions) :
            \/ fi.functions[k].parent = None
            \/ \E c \in 1..Len(fi.classes) : fi.classes[c].name = fi.functions[k].parent}

CalleeLists ==
    {s \in UNION {[1..n -> {"f", "g", "x"}] : n \in 0..2} : NoDuplicates(s)}

InitGraph ==
    /\ \E n \in 0..2 : file_data \in [1..n -> FileInfos]
    /\ \E keys \in SUBSET {"f", "g"} : call_graph \in [keys -> CalleeLists]
    /\ all_functions = <<>>
    /\ dot = NoGraph
    /\ pc = "inputs"
    /\ tree = NoTree
    /\ entities = NoEntities
    /\ calls = <<>>
    /\ fs = <<>>
    /\ cache = <<>>
    /\ args = NoCall
    /\ ret = NoReturn
    /\ effects = NoEffects

BuildDependencyTree ==
    /\ pc = "inputs"
    /\ LET st == build_dependency_tree(file_data, call_graph)
       IN  /\ dot' = [nodes |-> st.nodes, edges |-> st.edges]
           /\ all_functions' = st.all_functions
    /\ pc' = "rendered"
    /\ UNCHANGED <<treeVars, runVars, file_data, call_graph>>

NextGraph == BuildDependencyTree

SpecGraph == InitGraph /\ [][NextGraph]_vars

\* ---------------------------------------------------- run_analysis
\* A source file: the directory os.walk reports it under (as its path
\* components), its name split before the suffix the filters look at, and
\* the tree the parser builds from it (for a .jac file: from its
\* conversion).
SourceFile(root, stem, suffix, content) ==
    [root |-> root, stem |-> stem, suffix |-> suffix, content |-> content]

SourceFiles ==
    {SourceFile(<<"repo">>, "a", ".py",
        [parent |-> <<0, 1>>, node |-> <<FunctionDef("f"), Call("identifier", "x")>>]),
     SourceFile(<<"repo">>, "b", ".py",
        [parent |-> <<0, 1>>, node |-> <<FunctionDef("f"), Call("identifier", "g")>>]),
     SourceFile(<<"repo">>, "e", ".py",
        [parent |-> <<>>, node |-> <<>>]),
     SourceFile(<<"repo", "venv">>, "v", ".py",
        [parent |-> <<0>>, node |-> <<FunctionDef("g")>>]),
     SourceFile(<<"repo">>, "j", ".jac",
        [parent |-> <<0, 1, 2>>,
         node |-> <<ClassDef("C"), FunctionDef("g"), Call("attribute", "x")>>]),
     SourceFile(<<"repo">>, "a", "_converted.py",
        [parent |-> <<0>>, node |-> <<FunctionDef("f")>>]),
     SourceFile(<<"repo">>, "n", ".txt",
        [parent |-> <<>>, node |-> <<>>])}

RepoPaths == {"repo", "other"}

CachePaths == {"outputs/analyzer_output.json"}

\* os.walk(repo_path): the files below repo_path
walk(files, repo_path) ==
    SelectSeq(files, LAMBDA f : f.root[1] = repo_path)

\* any(skip in root for skip in ['.git', '__pycache__', 'venv', 'node_modules'])
skip_root(root) ==
    \E k \in 1..Len(root) : root[k] \in {".git", "__pycache__", "venv", "node_modules"}

\* filename.endswith('.py') or filename.endswith('.jac')
is_source(file) == file.suffix \in {".py", "_converted.py", ".jac"}

\* '_converted.py' in filename
is_converted(file) == file.suffix = "_converted.py"

is_eligible(file) ==
    ~skip_root(file.root) /\ is_source(file) /\ ~is_converted(file)

\* What can happen to one file of the walk: it is filtered out, its
\* conversion fails, or one of the statements of the try block raises.
Fates(file) ==
    IF ~is_eligible(file) THEN {"filtered"}
    ELSE {"ok", "parse_error", "entities_error", "calls_error"}
         \cup (IF file.suffix = ".jac" THEN {"not_converted"} ELSE {})

\* all_calls.update(calls)
dict_update(d, c) ==
    [k \in DOMAIN d \cup DOMAIN c |-> IF k \in DOMAIN c THEN c[k] ELSE d[k]]

\* entities["functions"] or entities["classes"], without the test
keeps_entities_always(ents) == TRUE

keeps_entities(ents) == ents.functions # <<>> \/ ents.classes # <<>>

\* the body of the inner loop for one file
parse_file(file, fate, acc) ==
    IF fate \in {"filtered", "not_converted", "parse_error", "entities_error"}
    THEN [acc EXCEPT !.log = Append(@, [file |-> file, fate |-> fate, appended |-> FALSE])]
    ELSE LET ents == extract_entities_minimal(file.content, file.stem \o file.suffix)
             keep == keeps_entities(ents)
             data == IF keep THEN Append(acc.file_data, ents) ELSE acc.file_data
         IN  IF fate = "calls_error"
             THEN [file_data |-> data,
                   all_calls |-> acc.all_calls,
                   log |-> Append(acc.log, [file |-> file, fate |-> fate, appended |-> keep])]
             ELSE [file_data |-> data,
                   all_calls |-> dict_update(acc.all_calls,
                                    extract_call_relationships(file.content)),
                   log |-> Append(acc.log, [file |-> file, fate |-> fate, appended |-> keep])]

RECURSIVE parse_files(_, _, _, _)
parse_files(w, fate, i, acc) ==
    IF i > Len(w) THEN acc
    ELSE parse_files(w, fate, i + 1, parse_file(w[i], fate[i], acc))

RECURSIVE SumLen(_, _)
SumLen(seqs, i) ==
    IF i > Len(seqs) THEN 0 ELSE Len(seqs[i]) + SumLen(seqs, i + 1)

RECURSIVE SumCalls(_, _)
SumCalls(d, keys) ==
    IF keys = {} THEN 0
    ELSE LET k == CHOOSE x \in keys : TRUE
         IN  Len(d[k]) + SumCalls(d, keys \ {k})

build_result(repo_path, data, all_calls) ==
    [repo_path |-> repo_path,
     files |-> data,
     call_graph |-> all_calls,
     graphs |-> [dependency_tree |-> "outputs/graphs/dependency_tree.png",
                 class_hierarchy |-> "outputs/graphs/class_hierarchy.png"],
     stats |-> [total_files |-> Len(data),
                total_classes |-> SumLen([i \in 1..Len(data) |-> data[i].classes], 1),
                total_functions |-> SumLen([i \in 1..Len(data) |-> data[i].functions], 1),
                total_calls |-> SumCalls(all_calls, DOMAIN all_calls)]]

\* json.dump / json.load of a result: None is written as null
json_none(v, none) == IF v \in {None, "null"} THEN none ELSE v

json_files(data, none) ==
    [i \in 1..Len(data) |->
        [data[i] EXCEPT !.functions =
            [k \in 1..Len(@) |-> [@[k] EXCEPT !.parent = json_none(@, none)]]]]

json_dump(result) == [json |-> [result EXCEPT !.files = json_files(@, "null")]]

json_load(text) == [text.json EXCEPT !.files = json_files(@, None)]

\* os.path.exists(cache_path)
cache_exists_never(files, cache_path) == FALSE

cache_exists(files, cache_path) == cache_path \in DOMAIN files

\* `if not parser`, with the test left out
parser_missing_unchecked(parser_ok) == FALSE

\* `if not parser`: init_parser returned None
parser_missing(parser_ok) == ~parser_ok

RunAnalysis(repo_path, cache_path) ==
    /\ pc \in {"idle", "returned"}
    /\ pc' = "returned"
    /\ args' = [repo_path |-> repo_path, cache_path |-> cache_path]
    /\ IF cache_exists(cache, cache_path)
       THEN /\ ret' = json_load(cache[cache_path])
            /\ effects' = [NoEffects EXCEPT !.cache_hit = TRUE]
            /\ file_data' = <<>>
            /\ call_graph' = <<>>
            /\ all_functions' = <<>>
            /\ dot' = NoGraph
            /\ UNCHANGED cache
       ELSE \E parser_ok \in BOOLEAN :
            IF parser_missing(parser_ok)
            THEN /\ ret' = [error |-> "Parser initialization failed"]
                 /\ effects' = [NoEffects EXCEPT !.parser_failed = TRUE]
                 /\ file_data' = <<>>
                 /\ call_graph' = <<>>
                 /\ all_functions' = <<>>
                 /\ dot' = NoGraph
                 /\ UNCHANGED cache
            ELSE LET w == walk(fs, repo_path)
                 IN  \E fate \in {ft \in [1..Len(w) -> {"filtered", "not_converted", "ok",
                                                         "parse_error", "entities_error",
                                                         "calls_error"}] :
                                     \A i \in 1..Len(w) : ft[i] \in Fates(w[i])} :
                     LET acc == parse_files(w, fate, 1,
                                    [file_data |-> <<>>, all_calls |-> <<>>, log |-> <<>>])
                         st == build_dependency_tree(acc.file_data, acc.all_calls)
                         result == build_result(repo_path, acc.file_data, acc.all_calls)
                     IN  /\ file_data' = acc.file_data
                         /\ call_graph' = acc.all_calls
                         /\ all_functions' = st.all_functions
                         /\ dot' = [nodes |-> st.nodes, edges |-> st.edges]
                         /\ cache' = Put(cache, cache_path, json_dump(result))
                         /\ effects' = [cache_hit |-> FALSE, parser |-> parser_ok,
                                        parser_failed |-> ~parser_ok,
                                        log |-> acc.log, wrote |-> TRUE]
                         /\ ret' = result
    /\ UNCHANGED <<treeVars, fs>>

\* what is left of a call once it has returned and time passes
Forgotten ==
    /\ pc' = "idle"
    /\ args' = NoCall
    /\ ret' = NoReturn
    /\ effects' = NoEffects
    /\ file_data' = <<>>
    /\ call_graph' = <<>>
    /\ all_functions' = <<>>
    /\ dot' = NoGraph

\* the source tree changes between two calls: a file appears
CreateFile(file) ==
    /\ pc \in {"idle", "returned"}
    /\ Len(fs) < MaxFiles
    /\ ~InSeq(file, fs)
    /\ fs' = Append(fs, file)
    /\ Forgotten
    /\ UNCHANGED <<treeVars, cache>>

\* the source tree changes between two calls: a file disappears
DeleteFile(i) ==
    /\ pc \in {"idle", "returned"}
    /\ i \in 1..Len(fs)
    /\ fs' = [k \in 1..(Len(fs) - 1) |-> IF k < i THEN fs[k] ELSE fs[k + 1]]
    /\ Forgotten
    /\ UNCHANGED <<treeVars, cache>>

InitRun ==
    /\ fs = <<>>
    /\ cache = <<>>
    /\ args = NoCall
    /\ ret = NoReturn
    /\ effects = NoEffects
    /\ pc = "idle"
    /\ file_data = <<>>
    /\ call_graph = <<>>
    /\ all_functions = <<>>
    /\ dot = NoGraph
    /\ tree = NoTree
    /\ entities = NoEntities
    /\ calls = <<>>

NextRun ==
    \/ \E repo_path \in RepoPaths, cache_path \in CachePaths :
           RunAnalysis(repo_path, cache_path)
    \/ \E file \in SourceFiles : CreateFile(file)
    \/ \E i \in 1..MaxFiles : DeleteFile(i)

SpecRun == InitRun /\ [][NextRun]_vars

\* ------------------------------------------ properties of the walks


\* the function definitions that lexically enclose node i
FuncAncestors(t, i) ==
    {a \in AncestorsOrSelf(t.parent, t.parent[i]) \ {0} :
        t.node[a].type = "function_definition"}

Recordable(c) ==
    c # None /\ c \notin BUILTIN_FUNCTIONS /\ c \notin JAC_KEYWORDS

\* the call sites with a recordable target that lie in a function body
CallSites(t) ==
    {i \in 1..Size(t) : /\ t.node[i].type = "call"
                        /\ Recordable(Called(t, i))
                        /\ FuncAncestors(t, i) # {}}

\* the call sites the walk reaches with current_func = f: the innermost
\* enclosing definition is named f and no enclosing definition is name-less
SitesOf(t, f) ==
    {i \in CallSites(t) :
        /\ \A a \in FuncAncestors(t, i) : t.node[a].name # None
        /\ t.node[Max(FuncAncestors(t, i))].name = f}

FirstSite(t, f, c) == Min({i \in SitesOf(t, f) : Called(t, i) = c})

RecordedNames(e) == {e.functions[k].name : k \in 1..Len(e.functions)}

\* C1: every key of the call map is the name of a function recorded by
\* extract_entities_minimal for the same tree (no orphan keys), nested
\* definitions included.
C1_NoOrphanKeys ==
    pc = "done" => DOMAIN calls \subseteq RecordedNames(entities)

\* C2: a call site inside a definition nested in an outer function is
\* attributed to the outermost function, and the nested function gets no
\* call-list entry of its own for it (stated for the sites the walk
\* reaches, those with every enclosing definition named).
C2_NestedCallsGoToOuter ==
    pc = "done" =>
        \A i \in CallSites(tree) :
            LET outer == tree.node[Min(FuncAncestors(tree, i))].name
                inner == tree.node[Max(FuncAncestors(tree, i))].name
            IN  (/\ Cardinality(FuncAncestors(tree, i)) >= 2
                 /\ \A a \in FuncAncestors(tree, i) : tree.node[a].name # None) =>
                    /\ outer \in DOMAIN calls
                    /\ InSeq(Called(tree, i), calls[outer])
                    /\ (inner # outer /\ inner \in DOMAIN calls)
                           => ~InSeq(Called(tree, i), calls[inner])

C4_RecordedFunctionsAreKeys ==
    pc = "done" =>
        \A k \in 1..Len(entities.functions) :
            LET f == entities.functions[k].name
            IN  /\ f \in DOMAIN calls
                /\ SitesOf(tree, f) = {} => calls[f] = <<>>

\* --------------------------------- properties of build_dependency_tree
\* the function entities of file_data, as <<file index, function index>>
Placed(fd) ==
    UNION {{<<i, k>> : k \in 1..Len(fd[i].functions)} : i \in 1..Len(fd)}

\* the entity is drawn: it is standalone or a method of a class of its file
IsDrawn(fi, func) ==
    \/ func.parent = None
    \/ \E c \in 1..Len(fi.classes) : fi.classes[c].name = func.parent

DrawnNames(fd) ==
    {fd[x[1]].functions[x[2]].name :
        x \in {y \in Placed(fd) : IsDrawn(fd[y[1]], fd[y[1]].functions[y[2]])}}

CallEdges == {e \in dot.edges : e.style = "call"}

\* C5: two function entities that differ in their file or in their
\* enclosing class never share a node id, and each of them keeps its own
\* entry in the name-to-node map used for call edges.
C5_DistinctNodeIds ==
    pc = "rendered" =>
        /\ \A x, y \in Placed(file_data) :
               LET fx == file_data[x[1]].functions[x[2]]
                   fy == file_data[y[1]].functions[y[2]]
               IN  (x[1] # y[1] \/ fx.parent # fy.parent) =>
                       node_id(file_data[x[1]].file, fx.name)
                           # node_id(file_data[y[1]].file, fy.name)
        /\ Cardinality(DOMAIN all_functions) = Cardinality(Placed(file_data))

\* C6: a call edge is drawn for a (caller, callee) pair only if callee is
\* a key of the call graph.
C6_EdgeOnlyIfCalleeIsKey ==
    pc = "rendered" => \A e \in CallEdges : e.callee \in DOMAIN call_graph

\* C6 (amended): a call edge is drawn for a (caller, callee) pair of the
\* call graph only if caller and callee are both names of function
\* entities of file_data that were drawn as nodes; whether callee is a key
\* of the call graph plays no part.
C6_EdgeOnlyBetweenDrawnFunctions ==
    pc = "rendered" =>
        \A e \in CallEdges :
            /\ e.caller \in DOMAIN call_graph
            /\ InSeq(e.callee, call_graph[e.caller])
            /\ e.caller \in DrawnNames(file_data)
            /\ e.callee \in DrawnNames(file_data)

\* an edge was drawn to a function that is no key of the call graph
C6_Witness ==
    /\ pc = "rendered"
    /\ \E e \in CallEdges : e.callee \notin DOMAIN call_graph

\* C7: both ends of every call edge are function nodes added to the graph
\* (no dangling call edge).
C7_NoDanglingCallEdge ==
    pc = "rendered" =>
        \A e \in CallEdges :
            /\ [id |-> e.from, shape |-> "ellipse"] \in dot.nodes
            /\ [id |-> e.to, shape |-> "ellipse"] \in dot.nodes

\* a call edge was drawn while another callee of the same caller, naming
\* no function node, was left out
C7_Witness ==
    /\ pc = "rendered"
    /\ \E e \in CallEdges :
           \E k \in 1..Len(call_graph[e.caller]) :
               call_graph[e.caller][k] \notin DOMAIN all_functions

\* ------------------------------------------ properties of run_analysis
Completed == pc = "returned" /\ effects.wrote

LogIndices(fates) ==
    {i \in 1..Len(effects.log) : effects.log[i].fate \in fates}

\* the files of the last walk that met one of the given fates
LogFiles(fates) ==
    LET picked == SelectSeq(effects.log, LAMBDA entry : entry.fate \in fates)
    IN  [i \in 1..Len(picked) |-> picked[i].file]

\* the tree holds a function or class definition
HasDefinition(t) ==
    \E i \in 1..Size(t) :
        t.node[i].type \in {"function_definition", "class_definition"}

\* C8: once a result is persisted under a cache path it stays as it is,
\* and every later call with that path returns it as read back, without
\* building a parser, walking a file or writing the cache, whatever the
\* source tree has become and whatever repo_path is passed.
C8_CacheHitIsVerbatim ==
    [][\A p \in DOMAIN cache :
          /\ p \in DOMAIN cache'
          /\ cache'[p] = cache[p]
          /\ (pc' = "returned" /\ args'.cache_path = p) =>
                 /\ ret' = json_load(cache[p])
                 /\ effects'.cache_hit
                 /\ ~effects'.parser
                 /\ effects'.log = <<>>
                 /\ ~effects'.wrote]_vars

\* a call was answered from the cache with the result of another
\* repo_path, whose files have gone from the source tree since
C8_Witness ==
    /\ pc = "returned"
    /\ effects.cache_hit
    /\ ret.repo_path # args.repo_path
    /\ ret.files # <<>>
    /\ walk(fs, ret.repo_path) = <<>>

\* C9: a run in which files raise still handles every file of the walk,
\* and its result is the one the same walk gives without the files that
\* raised: they add nothing to `files` and nothing to `call_graph`.
C9_FailedFileSkippedWhole ==
    Completed =>
        LET good == LogFiles({"ok"})
            clean == parse_files(good, [i \in 1..Len(good) |-> "ok"], 1,
                         [file_data |-> <<>>, all_calls |-> <<>>, log |-> <<>>])
        IN  /\ Len(effects.log) = Len(walk(fs, args.repo_path))
            /\ ret.files = clean.file_data
            /\ ret.call_graph = clean.all_calls

\* C10: every file parsed and extracted without error has its entry in
\* `files`, so that without failures total_files counts exactly these
\* files, those without any definition included.
C10_OneEntryPerParsedFile ==
    Completed =>
        /\ \A i \in LogIndices({"ok"}) : effects.log[i].appended
        /\ LogIndices({"calls_error"}) = {} =>
               ret.stats.total_files = Cardinality(LogIndices({"ok"}))

\* C10 (amended): a file whose entities were extracted has exactly one
\* entry in `files` when it holds a function or class definition and none
\* otherwise, also when its call extraction raised afterwards; no other
\* file has an entry, and total_files counts the entries.
C10_OneEntryPerFileWithDefinitions ==
    Completed =>
        /\ \A i \in LogIndices({"ok", "calls_error"}) :
               effects.log[i].appended <=> HasDefinition(effects.log[i].file.content)
        /\ \A i \in 1..Len(effects.log) :
               effects.log[i].appended => effects.log[i].fate \in {"ok", "calls_error"}
        /\ Len(ret.files) = Cardinality({i \in 1..Len(effects.log) : effects.log[i].appended})
        /\ ret.stats.total_files = Len(ret.files)

\* a run handled a file without definitions next to one with definitions
C10_Witness ==
    /\ Completed
    /\ \E i \in LogIndices({"ok"}) : ~effects.log[i].appended
    /\ \E i \in LogIndices({"ok"}) : effects.log[i].appended

\* the class definitions that lexically enclose node i
ClassAncestors(t, i) ==
    {a \in AncestorsOrSelf(t.parent, t.parent[i]) \ {0} :
        t.node[a].type = "class_definition"}

\* the node a recorded entity was taken from
NodeAtLine(line) == line - 1

\* C12: the `parent` of every recorded function is None exactly when no
\* class definition encloses its definition, and otherwise the name of
\* the innermost enclosing class definition, whatever statements lie
\* between the class and the definition.
C12_ParentIsInnermostClass ==
    pc = "done" =>
        \A k \in 1..Len(entities.functions) :
            LET func == entities.functions[k]
                i == NodeAtLine(func.line)
            IN  /\ tree.node[i].type = "function_definition"
                /\ FuncAncestors(tree, i) = {}
                /\ (func.parent = None) <=> (ClassAncestors(tree, i) = {})
                /\ ClassAncestors(tree, i) # {} =>
                       func.parent = tree.node[Max(ClassAncestors(tree, i))].name

\* a method of a class nested in a class of another name was recorded
C12_Witness ==
    /\ pc = "done"
    /\ \E k \in 1..Len(entities.functions) :
           LET i == NodeAtLine(entities.functions[k].line)
           IN  /\ Cardinality(ClassAncestors(tree, i)) = 2
               /\ tree.node[Min(ClassAncestors(tree, i))].name
                      # tree.node[Max(ClassAncestors(tree, i))].name

\* C11: a call that finds no cache and whose parser construction fails
\* returns the bare failure value, handles no file and leaves the cache
\* path absent; the next call with that cache path is no cache hit and
\* constructs a parser again.
C11_ParserFailureIsNotCached ==
    [][/\ (pc' = "returned" /\ effects'.parser_failed) =>
             /\ ret' = [error |-> "Parser initialization failed"]
             /\ effects'.log = <<>>
             /\ ~effects'.wrote
             /\ cache' = cache
             /\ args'.cache_path \notin DOMAIN cache'
       /\ (/\ pc = "returned" /\ effects.parser_failed
           /\ pc' = "returned" /\ args'.cache_path = args.cache_path) =>
             /\ ~effects'.cache_hit
             /\ effects'.parser \/ effects'.parser_failed]_vars

\* the parser could not be built for a repository that holds a file the
\* walk would have parsed
C11_Witness ==
    /\ pc = "returned"
    /\ effects.parser_failed
    /\ \E i \in 1..Len(fs) :
           fs[i].root[1] = args.repo_path /\ is_eligible(fs[i])

\* the (caller, callee) pairs of a call map
CallPairs(d) == UNION {{<<f, d[f][k]>> : k \in 1..Len(d[f])} : f \in DOMAIN d}

\* the call map of the i-th file of the last walk
FileCalls(i) == extract_call_relationships(effects.log[i].file.content)

\* C13: aggregation loses no call: every callee a processed file records
\* under a function name f is in the final call_graph[f], also when
\* several files define f, and total_calls counts the calls of all files.
C13_AggregationLosesNoCall ==
    Completed =>
        /\ \A i \in LogIndices({"ok"}) :
               CallPairs(FileCalls(i)) \subseteq CallPairs(ret.call_graph)
        /\ ret.stats.total_calls
               >= Cardinality(UNION {CallPairs(FileCalls(i)) : i \in LogIndices({"ok"})})

====
